---- MODULE Spec2Model ----
(***************************************************************************)
(* A model of store.SourceStore (src/store/store.go): the policy list and  *)
(* its mutex, the bind history and its mutex, and the protected storage    *)
(* with the mutex it guards its source set with.  Every method is an       *)
(* operation run by one of the threads; a method that holds one mutex      *)
(* while it waits for another one takes one step per mutex it acquires.    *)
(***************************************************************************)
EXTENDS Naturals, Sequences, FiniteSets, TLC

\* ------------------------------------------------------------------ bounds

\* The number of calls started in one behaviour.
MaxCalls == 3

\* The same, in the behaviours that only change the policy list.
MaxPolicyCalls == 5

\* The same, in the behaviours of Put, Del, the policy calls and the snapshot.
MaxSourceCalls == 4

\* ---------------------------------------------------------------- universes

Threads == {"t1", "t2"}
NoThread == "none"

\* core.Source values, identified by their ID().
Sources == {"A", "B"}
NoSource == "none"

\* The blacklists callers hand to Get, and the sources handed to Put and Del.
Blacklists == {{}, {"A"}}
SourceLists == {{"A"}, {"B"}}

Hostnames == {"svc"}
IPs == {"ip1", "ip2"}

\* An address is a host with an optional ":port" suffix ("" is no port).
NoAddress == [host |-> "", port |-> ""]
Addresses == {[host |-> "svc", port |-> ""], [host |-> "svc", port |-> "80"],
              [host |-> "ip1", port |-> ""]}

Svc == [host |-> "svc", port |-> ""]

\* The Policy values handed to AppendPolicy: ID() and the one (source,
\* address) pair its Accept refuses.  AvoidA and AvoidB share their ID.
NoPolicy == [id |-> "", src |-> NoSource, address |-> NoAddress]
Stick == [id |-> "stick", src |-> NoSource, address |-> NoAddress]
AvoidA == [id |-> "avoid", src |-> "A", address |-> Svc]
AvoidB == [id |-> "avoid", src |-> "B", address |-> Svc]
ReserveB == [id |-> "reserve", src |-> "B", address |-> Svc]
Policies == {Stick, AvoidA, AvoidB, ReserveB}
PolicyIDs == {p.id : p \in Policies}

\* Policy.Accept(id, address)
Accept(p, id, address) == ~(id = p.src /\ address = p.address)

\* Policy.ID()
ID(p) == p.id

Range(s) == {s[i] : i \in 1..Len(s)}
Min(S) == CHOOSE x \in S : \A y \in S : x <= y

\* ------------------------------------------------------------------- state

VARIABLES
    policies,        \* ss.policies.val: [nil, val]
    policiesLock,    \* ss.policies.Mutex: the thread holding it
    bindHistory,     \* ss.bindHistory: [record, nil, val]
    bindHistoryLock, \* ss.bindHistory.Mutex
    protected,       \* the sources held by ss.protected
    protectedLock,   \* the mutex ss.protected guards its sources with
    pc,              \* where each thread is in the method it runs
    call,            \* the method each thread runs, and its arguments
    local,           \* the local variables of that method
    ret,             \* what the call that returned last returned
    calls,           \* the number of calls that may still start
    undisturbed,     \* history: no policy or source changed since the call began
    held,            \* history: the policies present since before the call began
    stale,           \* history: the keys recorded before recording was last
                     \* turned on or off, and not recorded since
    last             \* history: for each source, the Put or Del of it that
                     \* returned last, while no other one has begun since

vars == <<policies, policiesLock, bindHistory, bindHistoryLock, protected,
          protectedLock, pc, call, local, ret, calls, undisturbed, held, stale,
          last>>

EmptyMap == [k \in {} |-> NoSource]

NoCall == [name |-> "none", address |-> NoAddress, blacklisted |-> {},
           sources |-> {}]
NoLocal == [acc |-> <<>>, visited |-> {}, src |-> NoSource, host |-> ""]
\* logged: the call wrote to the error log.  policy: the Policy ShouldAccept
\* returns.  snapshot: the list GetSourcesSnapshot returns.
NoRet == [name |-> "none", err |-> "nil", src |-> NoSource, ok |-> FALSE,
          logged |-> FALSE, policy |-> NoPolicy, snapshot |-> {}]

\* New(store): the store handed in may already hold sources.
Start ==
    /\ policies = [nil |-> TRUE, val |-> <<>>]
    /\ policiesLock = NoThread
    /\ bindHistory = [record |-> FALSE, nil |-> TRUE, val |-> EmptyMap]
    /\ bindHistoryLock = NoThread
    /\ protected \in {{}, Sources}
    /\ protectedLock = NoThread
    /\ pc = [t \in Threads |-> "idle"]
    /\ call = [t \in Threads |-> NoCall]
    /\ local = [t \in Threads |-> NoLocal]
    /\ ret = NoRet
    /\ undisturbed = [t \in Threads |-> FALSE]
    /\ held = [t \in Threads |-> {}]
    /\ stale = {}
    /\ last = [s \in Sources |-> "none"]

Init == Start /\ calls = MaxCalls

InitPolicies == Start /\ calls = MaxPolicyCalls

InitSources == Start /\ calls = MaxSourceCalls

\* ----------------------------------------------------------------- helpers

\* TrimPort(address): the address without its port suffix.
TrimPort(address) == [address EXCEPT !.port = ""]

\* net.ParseIP(address) != nil
IsIP(address) == address.host \in IPs /\ address.port = ""

\* A thread that runs no method starts a call.
Begin(t) ==
    /\ pc[t] = "idle"
    /\ calls > 0
    /\ calls' = calls - 1

\* The call returns in the step it begins in.
Atomic(t, r) ==
    /\ Begin(t)
    /\ ret' = r
    /\ UNCHANGED <<pc, call, local>>

\* The call goes on at label.
Enter(t, c, label) ==
    /\ Begin(t)
    /\ call' = [call EXCEPT ![t] = c]
    /\ pc' = [pc EXCEPT ![t] = label]
    /\ UNCHANGED <<ret, local>>

\* A call in progress returns.
Leave(t, r) ==
    /\ pc' = [pc EXCEPT ![t] = "idle"]
    /\ call' = [call EXCEPT ![t] = NoCall]
    /\ local' = [local EXCEPT ![t] = NoLocal]
    /\ ret' = r
    /\ UNCHANGED calls

\* A policy or a source changed: no call in progress is undisturbed any more.
Disturb == undisturbed' = [u \in Threads |-> FALSE]

\* The history of a call ends with it.
Forget(t) ==
    /\ undisturbed' = [undisturbed EXCEPT ![t] = FALSE]
    /\ held' = [held EXCEPT ![t] = {}]

Result(name, err) == [NoRet EXCEPT !.name = name, !.err = err]

\* ------------------------------------------------------------ policy list

\* A duplicate check that finds nothing.
HasPolicyNever(val, id) == FALSE

\* A duplicate check that looks at the last policy only.
HasPolicyLast(val, id) == Len(val) > 0 /\ ID(val[Len(val)]) = id

\* AppendPolicy's duplicate check.
HasPolicy(val, id) == \E i \in 1..Len(val) : ID(val[i]) = id

\* A search without the found flag: j stays at the first policy.
FindPolicyNoFlag(val, id) ==
    LET hits == {i \in 1..Len(val) : ID(val[i]) = id}
    IN  IF hits = {} THEN (IF Len(val) > 0 THEN 1 ELSE 0) ELSE Min(hits)

\* DelPolicy's search: the first index whose policy has this ID, 0 if none.
FindPolicy(val, id) ==
    LET hits == {i \in 1..Len(val) : ID(val[i]) = id}
    IN  IF hits = {} THEN 0 ELSE Min(hits)

\* A removal that also drops what follows j.
RemoveFrom(val, j) == SubSeq(val, 1, j - 1)

\* append(val[:j], val[j+1:]...)
RemoveAt(val, j) == SubSeq(val, 1, j - 1) \o SubSeq(val, j + 1, Len(val))

\* RecordBindHistory without its assignment to record.
RecordBindHistoryNoFlag(bh) == [bh EXCEPT !.nil = FALSE, !.val = EmptyMap]

\* RecordBindHistory's assignments.
RecordBindHistory(bh) == [record |-> TRUE, nil |-> FALSE, val |-> EmptyMap]

\* The keys recorded so far are dropped with the table.
Drop == stale' = stale \cup DOMAIN bindHistory.val

\* StopRecordingBindHistory without its assignment to val.
StopRecordingBindHistoryKeep(bh) == [bh EXCEPT !.record = FALSE]

\* StopRecordingBindHistory's assignments.
StopRecordingBindHistory(bh) == [record |-> FALSE, nil |-> TRUE, val |-> EmptyMap]

\* AppendPolicy(p), up to its return or to its call of RecordBindHistory.
AppendPolicy(t, p) ==
    /\ policiesLock = NoThread
    /\ IF HasPolicy(policies.val, ID(p))
       THEN /\ Atomic(t, Result("AppendPolicy", "duplicate"))
            /\ UNCHANGED <<policies, policiesLock, undisturbed>>
       ELSE /\ policies' = [nil |-> FALSE, val |-> Append(policies.val, p)]
            /\ Disturb
            /\ IF ID(p) = "stick"
               THEN /\ Enter(t, [NoCall EXCEPT !.name = "AppendPolicy"],
                             "RecordBindHistory")
                    /\ policiesLock' = t
               ELSE /\ Atomic(t, Result("AppendPolicy", "nil"))
                    /\ UNCHANGED policiesLock
    /\ UNCHANGED <<bindHistory, bindHistoryLock, protected, protectedLock,
                   held, stale, last>>

\* The RecordBindHistory call of AppendPolicy("stick"), and its return.
AppendPolicyRecord(t) ==
    /\ pc[t] = "RecordBindHistory"
    /\ bindHistoryLock = NoThread
    /\ bindHistory' = RecordBindHistory(bindHistory)
    /\ Drop
    /\ policiesLock' = NoThread
    /\ Leave(t, Result("AppendPolicy", "nil"))
    /\ UNCHANGED <<policies, bindHistoryLock, protected, protectedLock,
                   undisturbed, held, last>>

\* DelPolicy(id), up to its return or to its call of StopRecordingBindHistory.
DelPolicy(t, id) ==
    /\ policiesLock = NoThread
    /\ IF policies.nil
       THEN /\ Atomic(t, Result("DelPolicy", "nopolicies"))
            /\ UNCHANGED <<policies, policiesLock, undisturbed, held>>
       ELSE LET j == FindPolicy(policies.val, id)
            IN  IF j = 0
                THEN /\ Atomic(t, Result("DelPolicy", "notfound"))
                     /\ UNCHANGED <<policies, policiesLock, undisturbed, held>>
                ELSE /\ policies' = [policies EXCEPT !.val = RemoveAt(policies.val, j)]
                     /\ held' = [u \in Threads |-> held[u] \ {policies.val[j]}]
                     /\ Disturb
                     /\ IF id = "stick"
                        THEN /\ Enter(t, [NoCall EXCEPT !.name = "DelPolicy"],
                                      "StopRecordingBindHistory")
                             /\ policiesLock' = t
                        ELSE /\ Atomic(t, Result("DelPolicy", "nil"))
                             /\ UNCHANGED policiesLock
    /\ UNCHANGED <<bindHistory, bindHistoryLock, protected, protectedLock,
                   stale, last>>

\* The StopRecordingBindHistory call of DelPolicy("stick"), and its return.
DelPolicyStop(t) ==
    /\ pc[t] = "StopRecordingBindHistory"
    /\ bindHistoryLock = NoThread
    /\ bindHistory' = StopRecordingBindHistory(bindHistory)
    /\ Drop
    /\ policiesLock' = NoThread
    /\ Leave(t, Result("DelPolicy", "nil"))
    /\ UNCHANGED <<policies, bindHistoryLock, protected, protectedLock,
                   undisturbed, held, last>>

\* --------------------------------------------------------- protected storage

\* protected.Put(sources...)
StorePut(stored, sources) == stored \cup sources

\* protected.Del(sources...)
StoreDel(stored, sources) == stored \ sources

\* protected.Get(ctx, blacklisted...): the sources it may return.  It may also
\* fail: no source left, or ctx cancelled.
StoreGet(stored, blacklisted) == stored \ blacklisted

\* Put(sources...), up to its call of protected.Put.
Put(t, sources) ==
    /\ policiesLock = NoThread
    /\ Enter(t, [NoCall EXCEPT !.name = "Put", !.sources = sources], "ProtectedPut")
    /\ policiesLock' = t
    /\ last' = [s \in Sources |->
                   IF s \in sources /\ last[s] = "del" THEN "none" ELSE last[s]]
    /\ UNCHANGED <<policies, bindHistory, bindHistoryLock, protected,
                   protectedLock, undisturbed, held, stale>>

\* protected.Put under the storage's own mutex, and Put's return.
ProtectedPut(t) ==
    /\ pc[t] = "ProtectedPut"
    /\ protectedLock = NoThread
    /\ protected' = StorePut(protected, call[t].sources)
    /\ Disturb
    /\ policiesLock' = NoThread
    /\ Leave(t, Result("Put", "nil"))
    /\ last' = [s \in Sources |->
                   IF s \in call[t].sources THEN "put" ELSE last[s]]
    /\ UNCHANGED <<policies, bindHistory, bindHistoryLock, protectedLock,
                   held, stale>>

\* Del(sources...), up to its call of protected.Del.
Del(t, sources) ==
    /\ policiesLock = NoThread
    /\ Enter(t, [NoCall EXCEPT !.name = "Del", !.sources = sources], "ProtectedDel")
    /\ policiesLock' = t
    /\ last' = [s \in Sources |->
                   IF s \in sources /\ last[s] = "put" THEN "none" ELSE last[s]]
    /\ UNCHANGED <<policies, bindHistory, bindHistoryLock, protected,
                   protectedLock, undisturbed, held, stale>>

\* protected.Del under the storage's own mutex, and Del's return.
ProtectedDel(t) ==
    /\ pc[t] = "ProtectedDel"
    /\ protectedLock = NoThread
    /\ protected' = StoreDel(protected, call[t].sources)
    /\ Disturb
    /\ policiesLock' = NoThread
    /\ Leave(t, Result("Del", "nil"))
    /\ last' = [s \in Sources |->
                   IF s \in call[t].sources THEN "del" ELSE last[s]]
    /\ UNCHANGED <<policies, bindHistory, bindHistoryLock, protectedLock,
                   held, stale>>

\* A snapshot of the first source only.
DummySourcesFirst(stored) ==
    IF stored = {} THEN {} ELSE {[ID |-> CHOOSE s \in stored : TRUE]}

\* acc = append(acc, &DummySource{ID: src.ID()}) for each source visited.
DummySources(stored) == {[ID |-> s] : s \in stored}

\* GetSourcesSnapshot(), up to its call of protected.Do: protected.Len() reads
\* the number of sources under the storage's mutex.
GetSourcesSnapshot(t) ==
    /\ protectedLock = NoThread
    /\ Enter(t, [NoCall EXCEPT !.name = "GetSourcesSnapshot"], "SnapshotDo")
    /\ UNCHANGED <<policies, policiesLock, bindHistory, bindHistoryLock,
                   protected, protectedLock, undisturbed, held, stale, last>>

\* protected.Do under the storage's mutex: the visitor takes no other mutex,
\* and GetSourcesSnapshot returns acc.
GetSourcesSnapshotDo(t) ==
    /\ pc[t] = "SnapshotDo"
    /\ protectedLock = NoThread
    /\ Leave(t, [NoRet EXCEPT !.name = "GetSourcesSnapshot",
                              !.snapshot = DummySources(protected)])
    /\ UNCHANGED <<policies, policiesLock, bindHistory, bindHistoryLock,
                   protected, protectedLock, undisturbed, held, stale, last>>

\* ------------------------------------------------------------ MakeBlacklist

\* A ShouldAccept that asks the first policy only.
ShouldAcceptFirst(pol, id, address) ==
    IF pol.nil \/ pol.val = <<>> \/ Accept(pol.val[1], id, TrimPort(address))
    THEN [ok |-> TRUE, policy |-> NoPolicy]
    ELSE [ok |-> FALSE, policy |-> pol.val[1]]

\* A ShouldAccept that returns the last policy that refuses.
ShouldAcceptLast(pol, id, address) ==
    LET no == {i \in 1..Len(pol.val) : ~Accept(pol.val[i], id, TrimPort(address))}
    IN  IF pol.nil \/ no = {}
        THEN [ok |-> TRUE, policy |-> NoPolicy]
        ELSE [ok |-> FALSE,
              policy |-> pol.val[CHOOSE i \in no : \A j \in no : j <= i]]

\* ShouldAccept(id, address): ok, and the first policy that refuses.
ShouldAccept(pol, id, address) ==
    IF pol.nil
    THEN [ok |-> TRUE, policy |-> NoPolicy]
    ELSE LET a == TrimPort(address)
             no == {i \in 1..Len(pol.val) : ~Accept(pol.val[i], id, a)}
         IN  IF no = {}
             THEN [ok |-> TRUE, policy |-> NoPolicy]
             ELSE [ok |-> FALSE, policy |-> pol.val[Min(no)]]

\* The loop of ShouldAccept from the i-th policy on: the number of policies
\* whose Accept it calls.
RECURSIVE ShouldAcceptLoop(_, _, _, _)
ShouldAcceptLoop(val, i, id, address) ==
    IF i > Len(val)
    THEN 0
    ELSE IF ~Accept(val[i], id, address)
         THEN 1
         ELSE 1 + ShouldAcceptLoop(val, i + 1, id, address)

\* The number of policies a call of ShouldAccept(id, address) asks.
ShouldAcceptEvaluated(pol, id, address) ==
    IF pol.nil THEN 0 ELSE ShouldAcceptLoop(pol.val, 1, id, TrimPort(address))

\* ShouldAccept(id, address) called on its own, under the policy mutex.
CallShouldAccept(t, id, address) ==
    /\ policiesLock = NoThread
    /\ LET r == ShouldAccept(policies, id, address)
       IN  Atomic(t, [NoRet EXCEPT !.name = "ShouldAccept", !.ok = r.ok,
                                   !.policy = r.policy])
    /\ UNCHANGED <<policies, policiesLock, bindHistory, bindHistoryLock,
                   protected, protectedLock, undisturbed, held, stale, last>>

\* The address MakeBlacklist is called with: Get passes its trimmed address.
MakeBlacklistArg(c) ==
    IF c.name = "Get" THEN TrimPort(c.address) ELSE c.address

\* MakeBlacklist's address after its own TrimPort.
MakeBlacklistAddress(c) == TrimPort(MakeBlacklistArg(c))

\* Where MakeBlacklist returns acc to: Get, or the caller of MakeBlacklist.
MakeBlacklistReturn(c) ==
    IF c.name = "Get" THEN "ProtectedGet" ELSE "MakeBlacklistReturn"

\* MakeBlacklist up to its call of Do: it reads the length of the policy list
\* under the policy mutex and returns at once when there is no policy.
MakeBlacklist(t, c) ==
    /\ policiesLock = NoThread
    /\ Enter(t, c, IF Len(policies.val) = 0 THEN MakeBlacklistReturn(c) ELSE "Do")
    /\ undisturbed' = [undisturbed EXCEPT ![t] = TRUE]
    /\ held' = [held EXCEPT ![t] = IF c.name = "Get" THEN Range(policies.val) ELSE {}]
    /\ UNCHANGED <<policies, policiesLock, bindHistory, bindHistoryLock,
                   protected, protectedLock, stale, last>>

\* Do(f): protected.Do takes the storage's mutex and visits every source.
Do(t) ==
    /\ pc[t] = "Do"
    /\ protectedLock = NoThread
    /\ IF protected = {}
       THEN /\ pc' = [pc EXCEPT ![t] = MakeBlacklistReturn(call[t])]
            /\ UNCHANGED protectedLock
       ELSE /\ pc' = [pc EXCEPT ![t] = "Visit"]
            /\ protectedLock' = t
    /\ UNCHANGED <<policies, policiesLock, bindHistory, bindHistoryLock,
                   protected, call, local, ret, calls, undisturbed, held, stale, last>>

\* A visitor whose ShouldAccept does not take the policy mutex.
VisitNoLock(t, s) ==
    /\ pc[t] = "Visit"
    /\ s \in protected \ local[t].visited
    /\ LET r == ShouldAccept(policies, s, MakeBlacklistAddress(call[t]))
           acc == IF r.ok THEN local[t].acc ELSE Append(local[t].acc, s)
           visited == local[t].visited \cup {s}
       IN  IF visited = protected
           THEN /\ local' = [local EXCEPT ![t].acc = acc, ![t].visited = {}]
                /\ pc' = [pc EXCEPT ![t] = MakeBlacklistReturn(call[t])]
                /\ protectedLock' = NoThread
           ELSE /\ local' = [local EXCEPT ![t].acc = acc, ![t].visited = visited]
                /\ UNCHANGED <<pc, protectedLock>>
    /\ UNCHANGED <<policies, policiesLock, bindHistory, bindHistoryLock,
                   protected, call, ret, calls, undisturbed, held, stale, last>>

\* The visitor on one source: ShouldAccept under the policy mutex.  After the
\* last source Do releases the storage's mutex and MakeBlacklist returns.
Visit(t, s) ==
    /\ pc[t] = "Visit"
    /\ s \in protected \ local[t].visited
    /\ policiesLock = NoThread
    /\ LET r == ShouldAccept(policies, s, MakeBlacklistAddress(call[t]))
           acc == IF r.ok THEN local[t].acc ELSE Append(local[t].acc, s)
           visited == local[t].visited \cup {s}
       IN  IF visited = protected
           THEN /\ local' = [local EXCEPT ![t].acc = acc, ![t].visited = {}]
                /\ pc' = [pc EXCEPT ![t] = MakeBlacklistReturn(call[t])]
                /\ protectedLock' = NoThread
           ELSE /\ local' = [local EXCEPT ![t].acc = acc, ![t].visited = visited]
                /\ UNCHANGED <<pc, protectedLock>>
    /\ UNCHANGED <<policies, policiesLock, bindHistory, bindHistoryLock,
                   protected, call, ret, calls, undisturbed, held, stale, last>>

\* The caller of MakeBlacklist takes the list.
MakeBlacklistDone(t) ==
    /\ pc[t] = "MakeBlacklistReturn"
    /\ Leave(t, Result("MakeBlacklist", "nil"))
    /\ Forget(t)
    /\ UNCHANGED <<policies, policiesLock, bindHistory, bindHistoryLock,
                   protected, protectedLock, stale, last>>

\* ---------------------------------------------------------------------- Get

\* A blacklist that is MakeBlacklist's alone.
BlacklistedByPolicy(blacklisted, acc) == Range(acc)

\* blacklisted = append(blacklisted, ss.MakeBlacklist(address)...)
Blacklisted(blacklisted, acc) == blacklisted \cup Range(acc)

\* Get(ctx, address, blacklisted...) starts with MakeBlacklist.
Get(t, address, blacklisted) ==
    MakeBlacklist(t, [NoCall EXCEPT !.name = "Get", !.address = address,
                                    !.blacklisted = blacklisted])

\* A Get that goes on to SaveBindHistory after protected.Get has failed.
ProtectedGetErrSave(t) ==
    /\ pc[t] = "ProtectedGet"
    /\ protectedLock = NoThread
    /\ local' = [local EXCEPT ![t] = NoLocal]
    /\ pc' = [pc EXCEPT ![t] = "SaveBindHistory"]
    /\ UNCHANGED <<policies, policiesLock, bindHistory, bindHistoryLock,
                   protected, protectedLock, call, ret, calls, undisturbed,
                   held, stale, last>>

\* protected.Get(ctx, blacklisted...) fails, and Get returns its error.
ProtectedGetErr(t) ==
    /\ pc[t] = "ProtectedGet"
    /\ protectedLock = NoThread
    /\ Leave(t, Result("Get", "storage"))
    /\ Forget(t)
    /\ UNCHANGED <<policies, policiesLock, bindHistory, bindHistoryLock,
                   protected, protectedLock, stale, last>>

\* protected.Get(ctx, blacklisted...) returns a source.
ProtectedGet(t, s) ==
    /\ pc[t] = "ProtectedGet"
    /\ protectedLock = NoThread
    /\ s \in StoreGet(protected, Blacklisted(call[t].blacklisted, local[t].acc))
    /\ local' = [local EXCEPT ![t] = [NoLocal EXCEPT !.src = s]]
    /\ pc' = [pc EXCEPT ![t] = "SaveBindHistory"]
    /\ UNCHANGED <<policies, policiesLock, bindHistory, bindHistoryLock,
                   protected, protectedLock, call, ret, calls, undisturbed,
                   held, stale, last>>

\* --------------------------------------------------------- SaveBindHistory

\* A SaveBindHistory that records whatever record says.
RecordingAlways(bh) == TRUE

\* if !ss.bindHistory.record { return }
Recording(bh) == bh.record

\* A SaveBindHistory that makes a new table each time.
MakeValNew(bh) == [bh EXCEPT !.nil = FALSE, !.val = EmptyMap]

\* if ss.bindHistory.val == nil { ss.bindHistory.val = make(...) }
MakeVal(bh) == [bh EXCEPT !.nil = FALSE]

\* A loop that stops after the first address.
BindOne(bh, addrs, id) ==
    LET one == IF addrs = {} THEN {} ELSE {CHOOSE v \in addrs : TRUE}
    IN  [bh EXCEPT !.val = [k \in DOMAIN bh.val \cup one |->
                                IF k \in one THEN id ELSE bh.val[k]]]

\* for _, v := range addrs { ss.bindHistory.val[v] = id }
Bind(bh, addrs, id) ==
    [bh EXCEPT !.val = [k \in DOMAIN bh.val \cup addrs |->
                            IF k \in addrs THEN id ELSE bh.val[k]]]

\* Get returns src after SaveBindHistory.
GetReturn(t) ==
    /\ Leave(t, [NoRet EXCEPT !.name = "Get", !.src = local[t].src])
    /\ Forget(t)

\* The same after SaveBindHistory has logged the error of a lookup.
GetReturnLogged(t) ==
    /\ Leave(t, [NoRet EXCEPT !.name = "Get", !.src = local[t].src,
                              !.logged = TRUE])
    /\ Forget(t)

\* SaveBindHistory(ctx, id, address) up to its first lookup: it takes the
\* bind history mutex and returns at once when nothing is recorded.
SaveBindHistory(t) ==
    /\ pc[t] = "SaveBindHistory"
    /\ bindHistoryLock = NoThread
    /\ IF ~Recording(bindHistory)
       THEN /\ GetReturn(t)
            /\ UNCHANGED <<bindHistory, bindHistoryLock>>
       ELSE /\ bindHistory' = MakeVal(bindHistory)
            /\ bindHistoryLock' = t
            /\ IF IsIP(TrimPort(call[t].address))
               THEN /\ pc' = [pc EXCEPT ![t] = "LookupAddr"]
                    /\ UNCHANGED local
               ELSE /\ pc' = [pc EXCEPT ![t] = "LookupHost"]
                    /\ local' = [local EXCEPT ![t].host = call[t].address.host]
            /\ UNCHANGED <<call, ret, calls, undisturbed, held>>
    /\ UNCHANGED <<policies, policiesLock, protected, protectedLock, stale, last>>

\* Resolver.LookupAddr(ctx, address) fails (an error, or the deadline), or
\* returns no host: SaveBindHistory returns.
LookupAddrFail(t) ==
    /\ pc[t] = "LookupAddr"
    /\ bindHistoryLock' = NoThread
    /\ GetReturnLogged(t)
    /\ UNCHANGED <<policies, policiesLock, bindHistory, protected,
                   protectedLock, stale, last>>

\* Resolver.LookupAddr(ctx, address) returns hosts: host = hosts[0].
LookupAddr(t, h) ==
    /\ pc[t] = "LookupAddr"
    /\ local' = [local EXCEPT ![t].host = h]
    /\ pc' = [pc EXCEPT ![t] = "LookupHost"]
    /\ UNCHANGED <<policies, policiesLock, bindHistory, bindHistoryLock,
                   protected, protectedLock, call, ret, calls, undisturbed,
                   held, stale, last>>

\* A failed lookup that Get returns as its error.
LookupHostFailErr(t) ==
    /\ pc[t] = "LookupHost"
    /\ bindHistoryLock' = NoThread
    /\ Leave(t, Result("Get", "lookup"))
    /\ Forget(t)
    /\ UNCHANGED <<policies, policiesLock, bindHistory, protected,
                   protectedLock, stale, last>>

\* Resolver.LookupHost(ctx, host) fails (an error, or the deadline):
\* SaveBindHistory returns.
LookupHostFail(t) ==
    /\ pc[t] = "LookupHost"
    /\ bindHistoryLock' = NoThread
    /\ GetReturnLogged(t)
    /\ UNCHANGED <<policies, policiesLock, bindHistory, protected,
                   protectedLock, stale, last>>

\* Resolver.LookupHost(ctx, host) returns addrs: each is bound to the source.
LookupHost(t, addrs) ==
    /\ pc[t] = "LookupHost"
    /\ bindHistory' = Bind(bindHistory, addrs, local[t].src)
    /\ stale' = stale \ addrs
    /\ bindHistoryLock' = NoThread
    /\ GetReturn(t)
    /\ UNCHANGED <<policies, policiesLock, protected, protectedLock, last>>

\* QueryBindHistory(address): src and ok.
QueryBindHistoryResult(bh, address) ==
    IF bh.nil \/ address \notin DOMAIN bh.val
    THEN [src |-> NoSource, ok |-> FALSE]
    ELSE [src |-> bh.val[address], ok |-> TRUE]

QueryBindHistory(t, address) ==
    /\ bindHistoryLock = NoThread
    /\ LET r == QueryBindHistoryResult(bindHistory, address)
       IN  Atomic(t, [NoRet EXCEPT !.name = "QueryBindHistory",
                                   !.src = r.src, !.ok = r.ok])
    /\ UNCHANGED <<policies, policiesLock, bindHistory, bindHistoryLock,
                   protected, protectedLock, undisturbed, held, stale, last>>

\* RecordBindHistory() called on its own.
CallRecordBindHistory(t) ==
    /\ bindHistoryLock = NoThread
    /\ bindHistory' = RecordBindHistory(bindHistory)
    /\ Drop
    /\ Atomic(t, Result("RecordBindHistory", "nil"))
    /\ UNCHANGED <<policies, policiesLock, bindHistoryLock, protected,
                   protectedLock, undisturbed, held, last>>

\* StopRecordingBindHistory() called on its own.
CallStopRecordingBindHistory(t) ==
    /\ bindHistoryLock = NoThread
    /\ bindHistory' = StopRecordingBindHistory(bindHistory)
    /\ Drop
    /\ Atomic(t, Result("StopRecordingBindHistory", "nil"))
    /\ UNCHANGED <<policies, policiesLock, bindHistoryLock, protected,
                   protectedLock, undisturbed, held, last>>

\* ----------------------------------------------------------- specifications

\* The calls of the proxy and of the management layer.
Next ==
    \/ \E t \in Threads, p \in Policies : AppendPolicy(t, p)
    \/ \E t \in Threads : AppendPolicyRecord(t)
    \/ \E t \in Threads, id \in PolicyIDs : DelPolicy(t, id)
    \/ \E t \in Threads : DelPolicyStop(t)
    \/ \E t \in Threads, S \in SourceLists : Put(t, S)
    \/ \E t \in Threads : ProtectedPut(t)
    \/ \E t \in Threads, S \in SourceLists : Del(t, S)
    \/ \E t \in Threads : ProtectedDel(t)
    \/ \E t \in Threads, a \in Addresses, bl \in Blacklists : Get(t, a, bl)
    \/ \E t \in Threads, a \in Addresses :
          MakeBlacklist(t, [NoCall EXCEPT !.name = "MakeBlacklist", !.address = a])
    \/ \E t \in Threads : Do(t)
    \/ \E t \in Threads, s \in Sources : Visit(t, s)
    \/ \E t \in Threads : MakeBlacklistDone(t)
    \/ \E t \in Threads : ProtectedGetErr(t)
    \/ \E t \in Threads, s \in Sources : ProtectedGet(t, s)
    \/ \E t \in Threads : SaveBindHistory(t)
    \/ \E t \in Threads : LookupAddrFail(t)
    \/ \E t \in Threads, h \in Hostnames : LookupAddr(t, h)
    \/ \E t \in Threads : LookupHostFail(t)
    \/ \E t \in Threads, addrs \in SUBSET IPs : LookupHost(t, addrs)
    \/ \E t \in Threads, a \in IPs : QueryBindHistory(t, a)

Spec == Init /\ [][Next]_vars

\* The same, with RecordBindHistory and StopRecordingBindHistory also called
\* on their own.
NextDirect ==
    \/ Next
    \/ \E t \in Threads : CallRecordBindHistory(t)
    \/ \E t \in Threads : CallStopRecordingBindHistory(t)

SpecDirect == Init /\ [][NextDirect]_vars

\* AppendPolicy and DelPolicy calls alone, more of them.
NextPolicies ==
    \/ \E t \in Threads, p \in Policies : AppendPolicy(t, p)
    \/ \E t \in Threads : AppendPolicyRecord(t)
    \/ \E t \in Threads, id \in PolicyIDs : DelPolicy(t, id)
    \/ \E t \in Threads : DelPolicyStop(t)

SpecPolicies == InitPolicies /\ [][NextPolicies]_vars

\* The policy calls, and ShouldAccept called on its own.
NextAccept ==
    \/ NextPolicies
    \/ \E t \in Threads, id \in Sources, a \in Addresses :
          CallShouldAccept(t, id, a)

SpecAccept == InitPolicies /\ [][NextAccept]_vars

\* The calls of the management layer that change the sources and the
\* policies, and GetSourcesSnapshot.
NextSources ==
    \/ NextPolicies
    \/ \E t \in Threads, S \in SourceLists : Put(t, S)
    \/ \E t \in Threads : ProtectedPut(t)
    \/ \E t \in Threads, S \in SourceLists : Del(t, S)
    \/ \E t \in Threads : ProtectedDel(t)
    \/ \E t \in Threads : GetSourcesSnapshot(t)
    \/ \E t \in Threads : GetSourcesSnapshotDo(t)

SpecSources == InitSources /\ [][NextSources]_vars

\* ------------------------------------------------------------------ claims

HasID(id) == \E i \in 1..Len(policies.val) : ID(policies.val[i]) = id

\* The step in which the Get of thread t returns a source: ret' holds it.
GetReturns(t) ==
    /\ pc[t] \in {"SaveBindHistory", "LookupAddr", "LookupHost"}
    /\ pc'[t] = "idle"

\* The thread has the source protected.Get gave it, which Get will return.
HasSource(t) == pc[t] \in {"SaveBindHistory", "LookupAddr", "LookupHost"}

\* C1: with no policy and no source changed during the call, the source a Get
\* returns is not in the caller's blacklist and is accepted by every policy
\* of the list for the address without its port.
C1_GetAvoidsBlacklistAndPolicies ==
    [][\A t \in Threads :
          (GetReturns(t) /\ undisturbed[t]) =>
              /\ ret'.name = "Get" /\ ret'.err = "nil"
              /\ ret'.src \notin call[t].blacklisted
              /\ \A i \in 1..Len(policies.val) :
                    Accept(policies.val[i], ret'.src, TrimPort(call[t].address))
      ]_vars

\* A Get called with a port and a blacklist holds the source it will return,
\* while a policy refuses another source of the storage.
C1_Witness ==
    \E t \in Threads :
        /\ HasSource(t) /\ undisturbed[t]
        /\ call[t].address.port = "80"
        /\ call[t].blacklisted # {}
        /\ \E s \in protected :
              ~ShouldAccept(policies, s, call[t].address).ok

\* C2: a Get never returns a source refused by a policy that was in the list
\* when the Get was called and has not been removed since, whatever Put, Del,
\* AppendPolicy and DelPolicy calls run meanwhile.
C2_GetHonoursHeldPolicies ==
    [][\A t \in Threads :
          GetReturns(t) =>
              \A p \in held[t] :
                  Accept(p, ret'.src, TrimPort(call[t].address))
      ]_vars

\* MakeBlacklist has returned acc: to Get, or to its caller.
MakeBlacklistReturned(t) == pc[t] \in {"ProtectedGet", "MakeBlacklistReturn"}

\* The sources of the storage that some policy of the list refuses for addr.
Refused(addr) ==
    {s \in protected :
        \E i \in 1..Len(policies.val) : ~Accept(policies.val[i], s, addr)}

\* C3 as stated: with no policy and no source changed during the call,
\* MakeBlacklist(addr) returns the sources that some policy refuses for addr
\* as it was passed.
C3_BlacklistForAddressAsPassed ==
    \A t \in Threads :
        (MakeBlacklistReturned(t) /\ undisturbed[t]) =>
            Range(local[t].acc) = Refused(MakeBlacklistArg(call[t]))

\* C3, amended: with no policy and no source changed during the call,
\* MakeBlacklist(addr) returns, each once, the sources that some policy refuses
\* for addr without its port; with no policy it returns the empty list and
\* never reaches Do.
C3_BlacklistForTrimmedAddress ==
    \A t \in Threads :
        undisturbed[t] =>
            /\ MakeBlacklistReturned(t) =>
                  /\ Range(local[t].acc) = Refused(TrimPort(MakeBlacklistArg(call[t])))
                  /\ Len(local[t].acc) = Cardinality(Range(local[t].acc))
                  /\ Len(policies.val) = 0 => local[t].acc = <<>>
            /\ pc[t] \in {"Do", "Visit"} => Len(policies.val) > 0

\* MakeBlacklist, called with a port, has returned a list that is not empty.
C3_Witness ==
    \E t \in Threads :
        /\ pc[t] = "MakeBlacklistReturn" /\ undisturbed[t]
        /\ call[t].address.port = "80"
        /\ local[t].acc # <<>>

\* An AppendPolicy("stick") or DelPolicy("stick") has changed the list and not
\* returned yet.
PolicyCallInProgress ==
    \E t \in Threads : pc[t] \in {"RecordBindHistory", "StopRecordingBindHistory"}

\* C4: while no AppendPolicy or DelPolicy call is in progress, the bind
\* history is recorded exactly when the list holds a policy with ID "stick".
C4_RecordingIffStick ==
    ~PolicyCallInProgress => (bindHistory.record <=> HasID("stick"))

\* Recording is on, and a Get is recording.
C4_Witness ==
    /\ ~PolicyCallInProgress
    /\ bindHistory.record
    /\ \E t \in Threads : pc[t] = "LookupHost"

\* C5: while nothing is recorded the table is absent and holds no entry.
C5_NoTableWhenNotRecording ==
    ~bindHistory.record => (bindHistory.nil /\ DOMAIN bindHistory.val = {})

\* StopRecordingBindHistory has returned after keys were recorded.
C5_Witness ==
    /\ ~bindHistory.record
    /\ stale # {}
    /\ ret = Result("StopRecordingBindHistory", "nil")

\* C6: QueryBindHistory finds no key that was recorded before "stick" was last
\* appended or removed, unless it was recorded again since.
C6_NoStaleBinding ==
    \A a \in stale : ~QueryBindHistoryResult(bindHistory, a).ok

\* Keys were recorded, and AppendPolicy("stick") has returned since.
C6_Witness ==
    /\ stale # {}
    /\ ret = Result("AppendPolicy", "nil")
    /\ HasID("stick")
    /\ bindHistory.record

\* C7: an AppendPolicy(p) called while the list holds a policy with p's ID
\* returns an error and changes neither the list nor the bind history.
C7_DuplicateAppendChangesNothing ==
    [][\A t \in Threads, p \in Policies :
          (AppendPolicy(t, p) /\ HasID(ID(p))) =>
              /\ ret' = Result("AppendPolicy", "duplicate")
              /\ policies' = policies
              /\ bindHistory' = bindHistory
      ]_vars

\* A second AppendPolicy of "stick" has returned its error, and the table
\* still holds what was recorded.
C7_Witness ==
    /\ ret = Result("AppendPolicy", "duplicate")
    /\ \A i \in 1..Len(policies.val) : ID(policies.val[i]) = "stick"
    /\ DOMAIN bindHistory.val # {}

\* C8: a DelPolicy(id) called while the list holds no policy with that id
\* returns an error and changes neither the list nor the bind history.
C8_MissingDelChangesNothing ==
    [][\A t \in Threads, id \in PolicyIDs :
          (DelPolicy(t, id) /\ ~HasID(id)) =>
              /\ ret'.name = "DelPolicy"
              /\ ret'.err \in {"nopolicies", "notfound"}
              /\ policies' = policies
              /\ bindHistory' = bindHistory
      ]_vars

\* A DelPolicy has failed on a list that earlier calls had filled and emptied.
C8_Witness ==
    /\ ret = Result("DelPolicy", "notfound")
    /\ ~policies.nil
    /\ policies.val = <<>>

\* The list without the policies that have this ID.
Without(val, id) == SelectSeq(val, LAMBDA p : ID(p) # id)

\* C9: a DelPolicy(id) called while the list holds a policy with that id
\* returns nil, and the list becomes the list it was without that policy: one
\* shorter, the others in their order.
C9_DelRemovesExactlyOne ==
    [][\A t \in Threads :
          /\ \A id \in PolicyIDs :
                (DelPolicy(t, id) /\ HasID(id)) =>
                    /\ Len(policies'.val) = Len(policies.val) - 1
                    /\ policies'.val = Without(policies.val, id)
                    /\ IF id = "stick"
                       THEN pc'[t] = "StopRecordingBindHistory"
                       ELSE ret' = Result("DelPolicy", "nil")
          /\ DelPolicyStop(t) =>
                (ret' = Result("DelPolicy", "nil") /\ policies' = policies)
      ]_vars

\* A DelPolicy has returned nil and left two policies.
C9_Witness ==
    /\ ret = Result("DelPolicy", "nil")
    /\ Len(policies.val) = 2

\* C10: no two policies of the list have the same ID.
C10_UniquePolicyIDs ==
    \A i, j \in 1..Len(policies.val) :
        i # j => ID(policies.val[i]) # ID(policies.val[j])

\* The list holds three policies; the AppendPolicy of the last holds the
\* policy mutex, so that any other AppendPolicy waits for it, and an
\* AppendPolicy was refused before.
C10_Witness ==
    /\ ret = Result("AppendPolicy", "duplicate")
    /\ Len(policies.val) = 3
    /\ \E t \in Threads : pc[t] = "RecordBindHistory" /\ policiesLock = t

\* C11: when protected.Get fails, Get returns its error at once: it starts no
\* recording step and leaves the bind history as it is, recorded or not.
C11_StorageErrorReturned ==
    [][\A t \in Threads :
          ProtectedGetErr(t) =>
              /\ ret' = Result("Get", "storage")
              /\ pc'[t] = "idle"
              /\ bindHistory' = bindHistory
              /\ bindHistoryLock' = bindHistoryLock
      ]_vars

\* A Get has returned the error of the storage while the bind history is
\* recorded and holds a binding.
C11_Witness ==
    /\ ret = Result("Get", "storage")
    /\ bindHistory.record
    /\ DOMAIN bindHistory.val # {}

\* C12: a Get keeps the source protected.Get gave it through SaveBindHistory
\* and returns it with a nil error, whatever the lookups return.
C12_SourceReturnedWhateverRecordingDoes ==
    [][\A t \in Threads :
          /\ \A s \in Sources : ProtectedGet(t, s) => local'[t].src = s
          /\ (HasSource(t) /\ pc'[t] # "idle") => local'[t].src = local[t].src
          /\ GetReturns(t) =>
                /\ ret'.name = "Get" /\ ret'.err = "nil"
                /\ ret'.src = local[t].src /\ ret'.src \in Sources
      ]_vars

\* A Get has returned a source after its recording step failed.
C12_Witness ==
    /\ ret.name = "Get" /\ ret.err = "nil" /\ ret.src \in Sources
    /\ ret.logged

\* The recording step of thread t binds ip in this step.
Binds(t, ip) == \E addrs \in SUBSET IPs : ip \in addrs /\ LookupHost(t, addrs)

\* C13: the forward lookup of a recording step is made for the host of the
\* address, or for the host the reverse lookup returned when the address is an
\* IP; when it returns, QueryBindHistory finds the source of the Get under
\* every address it returned, and goes on finding it until a recording step
\* binds that address again or DelPolicy("stick") turns recording off.
C13_QueryFindsRecordedSource ==
    [][/\ \A t \in Threads :
            /\ \A h \in Hostnames : LookupAddr(t, h) => local'[t].host = h
            /\ (pc[t] = "SaveBindHistory" /\ pc'[t] = "LookupHost") =>
                    local'[t].host = TrimPort(call[t].address).host
            /\ (pc[t] = "SaveBindHistory" /\ pc'[t] = "LookupAddr") =>
                    IsIP(TrimPort(call[t].address))
            /\ pc'[t] = "LookupHost" => local'[t].host \in Hostnames
            /\ \A addrs \in SUBSET IPs :
                  LookupHost(t, addrs) =>
                      \A ip \in addrs :
                          QueryBindHistoryResult(bindHistory', ip) =
                              [src |-> local[t].src, ok |-> TRUE]
            /\ \A ip \in IPs :
                  QueryBindHistory(t, ip) =>
                      /\ ret'.src = QueryBindHistoryResult(bindHistory, ip).src
                      /\ ret'.ok = QueryBindHistoryResult(bindHistory, ip).ok
       /\ \A ip \in IPs :
            (/\ QueryBindHistoryResult(bindHistory, ip).ok
             /\ ~\E t \in Threads : Binds(t, ip) \/ DelPolicyStop(t)) =>
                QueryBindHistoryResult(bindHistory', ip) =
                    QueryBindHistoryResult(bindHistory, ip)
      ]_vars

\* QueryBindHistory has found the source of a Get.
C13_Witness ==
    /\ ret.name = "QueryBindHistory"
    /\ ret.ok /\ ret.src \in Sources
    /\ HasID("stick")

\* Get returns the source it has without the result of any lookup: the only
\* such return is the one of a SaveBindHistory that finds nothing to record.
ReturnsWithoutLookup(t) == SaveBindHistory(t) /\ pc'[t] = "idle"

\* C14: a Get that has its source can return at once, while a lookup of its
\* own recording step, or of the recording step of another Get that holds the
\* bind history mutex, is still pending.
C14_GetReturnsWithoutWaiting ==
    \A t \in Threads :
        (/\ HasSource(t)
         /\ \E u \in Threads : /\ pc[u] \in {"LookupAddr", "LookupHost"}
                                /\ bindHistoryLock = u) =>
            ENABLED ReturnsWithoutLookup(t)

\* C16: an AppendPolicy or DelPolicy call never waits for the bind history
\* mutex: when it comes to RecordBindHistory or StopRecordingBindHistory, no
\* recording step holds that mutex.
C16_PolicyCallsNeverWaitForBindHistory ==
    \A t \in Threads :
        pc[t] \in {"RecordBindHistory", "StopRecordingBindHistory"} =>
            bindHistoryLock = NoThread

\* The thread whose mutex the call of thread t waits for; NoThread when the
\* call can go on, or when t runs no call.
WaitsFor(t) ==
    CASE pc[t] \in {"ProtectedPut", "ProtectedDel", "Do", "ProtectedGet"} ->
             protectedLock
      [] pc[t] = "Visit" -> policiesLock
      [] pc[t] \in {"RecordBindHistory", "StopRecordingBindHistory",
                    "SaveBindHistory"} -> bindHistoryLock
      [] OTHER -> NoThread

\* C17: no two calls in progress wait for a mutex the other one holds.
C17_NoLockCycle ==
    \A t, u \in Threads :
        ~(t # u /\ WaitsFor(t) = u /\ WaitsFor(u) = t)

\* C15: the list GetSourcesSnapshot returns has an entry with the ID of every
\* source whose Put returned last with no Del of it begun since, and no entry
\* with the ID of a source whose Del returned last with no Put of it begun
\* since.
C15_SnapshotFollowsPutAndDel ==
    [][\A t \in Threads :
          GetSourcesSnapshotDo(t) =>
              /\ ret'.name = "GetSourcesSnapshot"
              /\ \A x \in Sources :
                    /\ last[x] = "put" => [ID |-> x] \in ret'.snapshot
                    /\ last[x] = "del" =>
                          ~\E d \in ret'.snapshot : d.ID = x
      ]_vars

\* GetSourcesSnapshot has returned after a Put of one source, a Del of the
\* other and an AppendPolicy.
C15_Witness ==
    /\ ret.name = "GetSourcesSnapshot"
    /\ \E x, y \in Sources :
          /\ last[x] = "put" /\ [ID |-> x] \in ret.snapshot
          /\ last[y] = "del" /\ [ID |-> y] \notin ret.snapshot
    /\ Len(policies.val) > 0

\* The places in the list of the policies that refuse (id, address).
Refusing(id, address) ==
    {i \in 1..Len(policies.val) : ~Accept(policies.val[i], id, address)}

\* C18 as stated: ShouldAccept(id, address) returns false and the first
\* policy of the list that refuses (id, address) for the address as it was
\* passed, and true and no policy when no policy refuses it.
C18_FirstRefusalForAddressAsPassed ==
    [][\A t \in Threads, id \in Sources, a \in Addresses :
          CallShouldAccept(t, id, a) =>
              IF Refusing(id, a) = {}
              THEN ret'.ok /\ ret'.policy = NoPolicy
              ELSE ~ret'.ok /\ ret'.policy = policies.val[Min(Refusing(id, a))]
      ]_vars

\* C18, amended: ShouldAccept(id, address) asks the policies in the order of
\* the list for the address without its port.  It returns false and the first
\* policy that refuses, and has asked no policy after that one; it returns
\* true and no policy exactly when every policy accepts, which it does for a
\* list that is empty or was never made.
C18_FirstRefusalForTrimmedAddress ==
    [][\A t \in Threads, id \in Sources, a \in Addresses :
          CallShouldAccept(t, id, a) =>
              LET no == Refusing(id, TrimPort(a))
              IN  /\ ret'.name = "ShouldAccept"
                  /\ ret'.ok <=> no = {}
                  /\ IF no = {}
                     THEN /\ ret'.policy = NoPolicy
                          /\ ShouldAcceptEvaluated(policies, id, a) =
                                 Len(policies.val)
                     ELSE /\ ret'.policy = policies.val[Min(no)]
                          /\ ShouldAcceptEvaluated(policies, id, a) = Min(no)
                  /\ policies' = policies
      ]_vars

\* ShouldAccept has returned the first of two policies of the list that
\* refuse the same source for the same address.
C18_Witness ==
    /\ ret.name = "ShouldAccept" /\ ~ret.ok
    /\ \E i, j \in 1..Len(policies.val) :
          /\ i < j
          /\ policies.val[i].src = policies.val[j].src
          /\ policies.val[i].address = policies.val[j].address
          /\ ret.policy = policies.val[i]

\* C19: the visitor checks a source while no AppendPolicy or DelPolicy call
\* holds the policy mutex, against the list of that moment: the source is
\* appended to the blacklist exactly when a policy of that list refuses it for
\* the address without its port, and the check leaves the list as it is.
C19_SourceCheckedAgainstOneList ==
    [][\A t \in Threads, s \in Sources :
          Visit(t, s) =>
              /\ policiesLock = NoThread
              /\ ~PolicyCallInProgress
              /\ policies' = policies
              /\ IF Refusing(s, TrimPort(MakeBlacklistArg(call[t]))) # {}
                 THEN local'[t].acc = Append(local[t].acc, s)
                 ELSE local'[t].acc = local[t].acc
      ]_vars

\* A sweep is half done: the source it has checked was accepted by the list of
\* that moment and is refused by the list the next source will be checked
\* against.
C19_Witness ==
    \E t \in Threads :
        /\ pc[t] = "Visit"
        /\ \E s \in local[t].visited :
              /\ s \notin Range(local[t].acc)
              /\ Refusing(s, MakeBlacklistAddress(call[t])) # {}

\* The thread runs the lookups of a recording step.
Looking(t) == pc[t] \in {"LookupAddr", "LookupHost"}

\* C20: a recording step changes the bind history only when its forward
\* lookup returns addresses, and no other call changes it meanwhile; a lookup
\* that fails, or returns no host, ends the step and the Get, so that no
\* lookup is made twice.
C20_FailedRecordingChangesNothing ==
    [][\A t \in Threads :
          /\ (pc[t] = "SaveBindHistory" /\ pc'[t] # "SaveBindHistory") =>
                bindHistory' = bindHistory
          /\ (Looking(t) /\ ~\E addrs \in SUBSET IPs : LookupHost(t, addrs)) =>
                bindHistory' = bindHistory
          /\ (LookupAddrFail(t) \/ LookupHostFail(t)) =>
                /\ pc'[t] = "idle"
                /\ ret'.logged
                /\ bindHistory' = bindHistory
          /\ (pc[t] = "LookupAddr" /\ pc'[t] # "LookupAddr") =>
                pc'[t] \in {"LookupHost", "idle"}
          /\ (pc[t] = "LookupHost" /\ pc'[t] # "LookupHost") => pc'[t] = "idle"
      ]_vars

\* A recording step has failed, and the table holds what was recorded before.
C20_Witness ==
    /\ ret.name = "Get" /\ ret.logged
    /\ bindHistory.record
    /\ DOMAIN bindHistory.val # {}
====
